---- MODULE Spec2Model ----
(***************************************************************************)
(* Model of the MT5 trade analysis (src/mt5_trade_analysis.py) and of the  *)
(* API server that runs it as jobs (src/mt5_api_server.py).                *)
(*                                                                         *)
(* The specifications share the variables:                                 *)
(*   Spec        the deal feed -> get_trades_history ->                    *)
(*               calculate_position_times, with the deal feed varied;      *)
(*   SpecOrders  the same pipeline with the order history varied;          *)
(*   SpecEquity  the equity / drawdown loop of analyze_trades_by_day and   *)
(*               the equity table of save_daily_trades;                    *)
(*   SpecRescale the same loop over chronological feeds with withdrawals;  *)
(*   SpecStats   the win / loss figures by date and by (date, symbol);     *)
(*   SpecCallers one run of main() or of run_analysis around               *)
(*               get_trades_history;                                       *)
(*   SpecServer  the jobs of the API server as threads of one process,     *)
(*               SpecServerFair the same with fairly scheduled threads.    *)
(*                                                                         *)
(* Money and prices are integers (points / cents).  Values that pandas     *)
(* holds as numpy.float64 and that the code divides are modelled as exact  *)
(* rationals extended with the IEEE-754 values +-inf, nan and signed zero, *)
(* because numpy scalars do not raise on a zero divisor; rounding of the   *)
(* binary representation is not modelled.                                  *)
(***************************************************************************)
EXTENDS Integers, Sequences, FiniteSets, TLC

VARIABLES
    pc,                   \* position of the run in the pipeline
    deals,                \* mt5.history_deals_get(...)            (input)
    orders,               \* mt5.history_orders_get(...)           (input)
    orders_dict,          \* position_id -> [sl, tp]
    df,                   \* deals of completed positions, with sl / tp columns
    balance_df,           \* balance / credit deals of the feed, with their date
    position_times,       \* one row per closed position
    all_dates,            \* sorted distinct dates of the loop
    idx,                  \* number of dates the loop has processed
    current_equity,
    max_equity,
    max_drawdown,
    drawdown,
    daily_balance_change,
    daily_trading_profit,
    zero_divide,          \* the divisions of the last iteration whose divisor was zero
    equity_data,          \* rows built by save_daily_trades
    date_summaries,       \* the summary save_daily_trades writes for each date
    daily_stats,          \* one stats dict per (date, symbol) group
    daily_summary,        \* the table analyze_trades_by_day returns
    terminal_deals,       \* what mt5.history_deals_get returns while connected
    mt5_initialized,      \* the connection of the process to the terminal
    trade_data,           \* whether the directory trade-data exists
    tasks,                \* the dict of the API server: task_id -> record
    wpc,                  \* task_id -> position of its worker in run_analysis
    wret,                 \* task_id -> what get_trades_history returned
    wexc,                 \* task_id -> message of the exception the worker caught
    writes,               \* task_id -> the assignments made to tasks[task_id]
    response,             \* the last HTTP response of the server
    mpc,                  \* position of a run of main()
    mexc                  \* the exception main() is propagating

vars == <<pc, deals, orders, orders_dict, df, balance_df, position_times,
          all_dates, idx, current_equity, max_equity, max_drawdown, drawdown,
          daily_balance_change, daily_trading_profit, zero_divide, equity_data,
          date_summaries, daily_stats, daily_summary,
          terminal_deals, mt5_initialized, trade_data, tasks, wpc, wret, wexc,
          writes, response, mpc, mexc>>

serverVars == <<terminal_deals, mt5_initialized, trade_data, tasks, wpc, wret,
                wexc, writes, response, mpc, mexc>>

summaryVars == <<date_summaries, daily_stats, daily_summary>>

equityVars == <<all_dates, idx, current_equity, max_equity, max_drawdown,
                drawdown, daily_balance_change, daily_trading_profit,
                zero_divide, equity_data>>

-----------------------------------------------------------------------------
(* Bounds of the model *)

MaxDeals == 3
MaxTime == 3
MaxOrders == 3
MaxEvents == 3
MaxDate == 2
DayLen == 2

PositionIds == {1, 2}

StopLevels == {0, 100, 104}

TakeLevels == {0, 103}

TradeProfits == {-10000, 1000}

BalanceAmounts == {-10000, 500}

MaxDays == 3

RescaleProfits == {-2000, 1000, 30000}

RescaleWithdrawals == {-10000, -4000}

MaxPositions == 3

MaxTasks == 2

MaxCallerDeals == 2

StatGroups == {<<1, "EURUSD">>, <<1, "XAUUSD">>, <<2, "EURUSD">>}

StatProfits == {0, 5}

StatChanges == {0, 3}

-----------------------------------------------------------------------------
(* Generic helpers *)

Range(s) == {s[i] : i \in 1..Len(s)}

Abs(x) == IF x < 0 THEN -x ELSE x

Min(S) == CHOOSE x \in S : \A y \in S : x <= y

Max(S) == CHOOSE x \in S : \A y \in S : x >= y

RECURSIVE Pow(_, _)
Pow(b, e) == IF e = 0 THEN 1 ELSE b * Pow(b, e - 1)

SeqsUpTo(S, n) == UNION {[1..k -> S] : k \in 0..n}

\* Series.sum() of one column
RECURSIVE ColumnSum(_, _)
ColumnSum(rows, col) ==
    IF rows = <<>> THEN 0
    ELSE Head(rows)[col] + ColumnSum(Tail(rows), col)

\* Series.unique(): distinct values in order of first appearance
RECURSIVE Unique(_)
Unique(s) ==
    IF s = <<>> THEN <<>>
    ELSE LET r == Unique(SubSeq(s, 1, Len(s) - 1))
             x == s[Len(s)]
         IN  IF x \in Range(r) THEN r ELSE Append(r, x)

\* an optional value: None, or a number
None == [isNone |-> TRUE, val |-> 0]

Some(v) == [isNone |-> FALSE, val |-> v]

-----------------------------------------------------------------------------
(* get_trades_history *)

DEAL_ENTRY_IN == "IN"

DEAL_ENTRY_OUT == "OUT"

DEAL_TYPE_BUY == "BUY"

DEAL_TYPE_BALANCE == "BALANCE"

DEAL_TYPE_CREDIT == "CREDIT"

\* .dt.date of a UTC timestamp: the calendar day the second falls in
DateOf(t) == t \div DayLen

\* the loop over the orders, one order at a time (lines 75-86)
UpdateOrdersDictAlways(d, order) ==
    IF order.position_id \notin DOMAIN d
    THEN [p \in DOMAIN d \cup {order.position_id} |->
            IF p = order.position_id THEN [sl |-> order.sl, tp |-> order.tp]
            ELSE d[p]]
    ELSE [d EXCEPT ![order.position_id] = [sl |-> order.sl, tp |-> order.tp]]

UpdateOrdersDict(d, order) ==
    IF order.position_id \notin DOMAIN d
    THEN [p \in DOMAIN d \cup {order.position_id} |->
            IF p = order.position_id THEN [sl |-> order.sl, tp |-> order.tp]
            ELSE d[p]]
    ELSE [d EXCEPT ![order.position_id] =
            [sl |-> IF order.sl # 0 THEN order.sl ELSE @.sl,
             tp |-> IF order.tp # 0 THEN order.tp ELSE @.tp]]

RECURSIVE BuildOrdersDict(_)
BuildOrdersDict(os) ==
    IF os = <<>> THEN [p \in {} |-> [sl |-> 0, tp |-> 0]]
    ELSE UpdateOrdersDict(BuildOrdersDict(SubSeq(os, 1, Len(os) - 1)), os[Len(os)])

\* df['sl'] / df['tp'] : orders_dict.get(x, {}).get('sl', None)
LookupSlTp(d, pid, field) ==
    IF pid \in DOMAIN d THEN Some(d[pid][field]) ELSE None

AttachSlTp(d, deal) ==
    [ticket |-> deal.ticket, position_id |-> deal.position_id,
     time |-> deal.time, time_gmt |-> deal.time, entry |-> deal.entry,
     type |-> deal.type, symbol |-> deal.symbol,
     price |-> deal.price, profit |-> deal.profit,
     commission |-> deal.commission, swap |-> deal.swap,
     sl |-> LookupSlTp(d, deal.position_id, "sl"),
     tp |-> LookupSlTp(d, deal.position_id, "tp")]

\* groupby('position_id').agg({'entry': 'count'})
EntryCount(rows, pid) == Cardinality({i \in 1..Len(rows) : rows[i].position_id = pid})

CompletedPositionsOffByOne(rows) ==
    {pid \in {rows[i].position_id : i \in 1..Len(rows)} : EntryCount(rows, pid) > 2}

CompletedPositions(rows) ==
    {pid \in {rows[i].position_id : i \in 1..Len(rows)} : EntryCount(rows, pid) >= 2}

KeepCompleted(rows) ==
    LET completed == CompletedPositions(rows)
        Keep(r) == r.position_id \in completed
    IN  SelectSeq(rows, Keep)

\* lines 58-68; both history_deals_get calls read the same account history
BalanceRows(ds) ==
    LET IsBalance(r) == /\ r.entry = DEAL_ENTRY_IN
                        /\ r.type \in {DEAL_TYPE_BALANCE, DEAL_TYPE_CREDIT}
        sel == SelectSeq(ds, IsBalance)
    IN  [i \in 1..Len(sel) |->
            [time_gmt |-> sel[i].time, date |-> DateOf(sel[i].time),
             profit |-> sel[i].profit]]

GetTradesHistory ==
    /\ pc = "start"
    /\ LET d == BuildOrdersDict(orders)
           withSlTp == [i \in 1..Len(deals) |-> AttachSlTp(d, deals[i])]
           kept == KeepCompleted(withSlTp)
       IN  /\ orders_dict' = d
           /\ IF Len(kept) = 0
              THEN /\ pc' = "nodata"
                   /\ df' = <<>>
              ELSE /\ pc' = "fetched"
                   /\ df' = kept
    /\ balance_df' = BalanceRows(deals)
    /\ UNCHANGED <<deals, orders, position_times>>
    /\ UNCHANGED equityVars
    /\ UNCHANGED summaryVars
    /\ UNCHANGED serverVars

-----------------------------------------------------------------------------
(* calculate_position_times *)

\* sort_values('time'): the default sort is not stable, rows of equal time
\* may come out in any order
SortValuesByTime(rows) ==
    LET n == Len(rows)
        perms == {f \in [1..n -> 1..n] : \A i, j \in 1..n : i # j => f[i] # f[j]}
    IN  {[i \in 1..n |-> rows[f[i]]] : f \in
            {g \in perms : \A i \in 1..n - 1 : rows[g[i]].time <= rows[g[i + 1]].time}}

IsEntryIn(r) == r.entry = DEAL_ENTRY_IN

IsEntryOut(r) == r.entry = DEAL_ENTRY_OUT

\* pd.notna(x) and x != 0
IsSet(opt) == ~opt.isNone /\ opt.val # 0

\* lines 137-154
ClassifyTpFirst(close_trade) ==
    IF IsSet(close_trade.tp)
    THEN [sl_tp_price |-> Some(close_trade.tp.val), close_type |-> "tp",
          slippage |-> Abs(close_trade.price - close_trade.tp.val)]
    ELSE IF IsSet(close_trade.sl)
    THEN [sl_tp_price |-> Some(close_trade.sl.val), close_type |-> "sl",
          slippage |-> Abs(close_trade.price - close_trade.sl.val)]
    ELSE [sl_tp_price |-> None, close_type |-> "market", slippage |-> 0]

Classify(close_trade) ==
    IF IsSet(close_trade.sl)
    THEN [sl_tp_price |-> Some(close_trade.sl.val), close_type |-> "sl",
          slippage |-> Abs(close_trade.price - close_trade.sl.val)]
    ELSE IF IsSet(close_trade.tp)
    THEN [sl_tp_price |-> Some(close_trade.tp.val), close_type |-> "tp",
          slippage |-> Abs(close_trade.price - close_trade.tp.val)]
    ELSE [sl_tp_price |-> None, close_type |-> "market", slippage |-> 0]

\* lines 184-186
GroupSumCloseOnly(position_trades, col) ==
    ColumnSum(SelectSeq(position_trades, IsEntryOut), col)

GroupSum(position_trades, col) == ColumnSum(position_trades, col)

\* lines 133-135 and 170-187, then the derived columns of lines 197-209
PositionRow(position_trades) ==
    LET open_trades == SelectSeq(position_trades, IsEntryIn)
        close_trades == SelectSeq(position_trades, IsEntryOut)
        open_trade == open_trades[1]
        close_trade == close_trades[Len(close_trades)]
        cls == Classify(close_trade)
        open_time == Min({r.time_gmt : r \in Range(position_trades)})
        close_time == Max({r.time_gmt : r \in Range(position_trades)})
        profit == GroupSum(position_trades, "profit")
        commission == GroupSum(position_trades, "commission")
        swap == GroupSum(position_trades, "swap")
    IN  [position_id |-> open_trade.position_id,
         symbol |-> open_trade.symbol,
         open_time |-> open_time,
         close_time |-> close_time,
         type |-> open_trade.type,
         open_price |-> open_trade.price,
         close_price |-> close_trade.price,
         sl |-> IF IsSet(close_trade.sl) THEN Some(close_trade.sl.val) ELSE None,
         tp |-> IF IsSet(close_trade.tp) THEN Some(close_trade.tp.val) ELSE None,
         sl_tp_price |-> cls.sl_tp_price,
         slippage |-> cls.slippage,
         close_type |-> cls.close_type,
         profit |-> profit,
         commission |-> commission,
         swap |-> swap,
         holding_time |-> close_time - open_time,
         date |-> DateOf(close_time),
         total_profit |-> profit + commission + swap,
         is_profit |-> profit > 0,
         price_change |-> Abs(close_trade.price - open_trade.price)]

\* line 130: the group is skipped
IsSkipped(position_trades) ==
    \/ Len(SelectSeq(position_trades, IsEntryIn)) = 0
    \/ Len(SelectSeq(position_trades, IsEntryOut)) = 0

\* the rows the loop of lines 123-187 can append for the ids pids, in order
RECURSIVE PositionData(_, _)
PositionData(rows, pids) ==
    IF pids = <<>> THEN {<<>>}
    ELSE LET pid == pids[Len(pids)]
             OfPid(r) == r.position_id = pid
             group == SelectSeq(rows, OfPid)
             before == PositionData(rows, SubSeq(pids, 1, Len(pids) - 1))
         IN  IF IsSkipped(group) THEN before
             ELSE {Append(b, PositionRow(sorted)) :
                     b \in before, sorted \in SortValuesByTime(group)}

CalculatePositionTimes ==
    /\ pc = "fetched"
    /\ \E data \in PositionData(df, Unique([i \in 1..Len(df) |-> df[i].position_id])) :
          position_times' = data
    /\ pc' = "calculated"
    /\ UNCHANGED <<deals, orders, orders_dict, df, balance_df>>
    /\ UNCHANGED equityVars
    /\ UNCHANGED summaryVars
    /\ UNCHANGED serverVars

-----------------------------------------------------------------------------
(* numpy.float64 arithmetic: exact rationals n/d with the IEEE-754 special  *)
(* values.  k = "fin": the rational n/d, d > 0, in lowest terms, s the sign *)
(* (s distinguishes +0.0 from -0.0); k = "inf": s * infinity; k = "nan".    *)

RECURSIVE Gcd(_, _)
Gcd(a, b) == IF b = 0 THEN a ELSE Gcd(b, a % b)

NaN == [k |-> "nan", n |-> 0, d |-> 1, s |-> 1]

Inf(sign) == [k |-> "inf", n |-> 0, d |-> 1, s |-> sign]

Zero(sign) == [k |-> "fin", n |-> 0, d |-> 1, s |-> sign]

\* the non-zero rational n/d, d > 0, in lowest terms
Ratio(n, d) ==
    LET g == Gcd(Abs(n), d)
    IN  [k |-> "fin", n |-> n \div g, d |-> d \div g, s |-> IF n < 0 THEN -1 ELSE 1]

Fin(i) == IF i = 0 THEN Zero(1) ELSE Ratio(i, 1)

IsZero(x) == x.k = "fin" /\ x.n = 0

NumSub(a, b) ==
    IF a.k = "nan" \/ b.k = "nan" THEN NaN
    ELSE IF a.k = "inf"
         THEN IF b.k = "inf" /\ b.s = a.s THEN NaN ELSE a
    ELSE IF b.k = "inf" THEN Inf(-b.s)
    ELSE LET g == Gcd(a.d, b.d)
             n == a.n * (b.d \div g) - b.n * (a.d \div g)
         IN  IF n # 0 THEN Ratio(n, (a.d \div g) * b.d)
             ELSE IF IsZero(a) /\ a.s = -1 /\ b.s = 1 THEN Zero(-1)
             ELSE Zero(1)

NumMul(a, b) ==
    IF a.k = "nan" \/ b.k = "nan" THEN NaN
    ELSE IF a.k = "inf" \/ b.k = "inf"
         THEN IF IsZero(a) \/ IsZero(b) THEN NaN ELSE Inf(a.s * b.s)
    ELSE IF IsZero(a) \/ IsZero(b) THEN Zero(a.s * b.s)
    ELSE LET g == Gcd(Abs(a.n), b.d)
             h == Gcd(Abs(b.n), a.d)
         IN  Ratio((a.n \div g) * (b.n \div h), (a.d \div h) * (b.d \div g))

NumDiv(a, b) ==
    IF a.k = "nan" \/ b.k = "nan" THEN NaN
    ELSE IF a.k = "inf"
         THEN IF b.k = "inf" THEN NaN ELSE Inf(a.s * b.s)
    ELSE IF b.k = "inf" THEN Zero(a.s * b.s)
    ELSE IF IsZero(b)
         THEN IF IsZero(a) THEN NaN ELSE Inf(a.s * b.s)
    ELSE IF IsZero(a) THEN Zero(a.s * b.s)
    ELSE LET g == Gcd(Abs(a.n), Abs(b.n))
             h == Gcd(a.d, b.d)
         IN  Ratio((a.n \div g) * (b.d \div h) * b.s,
                   (a.d \div h) * (Abs(b.n) \div g))

\* a > b ; every comparison with nan is False
NumGt(a, b) ==
    IF a.k = "nan" \/ b.k = "nan" THEN FALSE
    ELSE IF a.k = "inf" THEN a.s = 1 /\ ~(b.k = "inf" /\ b.s = 1)
    ELSE IF b.k = "inf" THEN b.s = -1
    ELSE LET g == Gcd(a.d, b.d)
         IN  a.n * (b.d \div g) > b.n * (a.d \div g)

NumGe(a, b) ==
    IF a.k = "nan" \/ b.k = "nan" THEN FALSE
    ELSE ~NumGt(b, a)

NumEq(a, b) == NumGe(a, b) /\ NumGe(b, a)

\* the builtin max(a, b): b only when b > a
PyMax(a, b) == IF NumGt(b, a) THEN b ELSE a

-----------------------------------------------------------------------------
(* analyze_trades_by_day: the equity and drawdown loop *)

initial_equity == 10000

\* ndarray.sort(): ascending
RECURSIVE SortAscending(_)
SortAscending(s) ==
    IF s = <<>> THEN <<>>
    ELSE LET m == Min(Range(s))
             i == CHOOSE j \in 1..Len(s) : s[j] = m
         IN  <<m>> \o SortAscending(SubSeq(s, 1, i - 1) \o SubSeq(s, i + 1, Len(s)))

\* sort_values('close_time'); only the dates and sums of the result are
\* read, which do not depend on the order of rows of equal close_time
RECURSIVE SortByCloseTime(_)
SortByCloseTime(rows) ==
    IF rows = <<>> THEN <<>>
    ELSE LET m == Min({r.close_time : r \in Range(rows)})
             i == CHOOSE j \in 1..Len(rows) : rows[j].close_time = m
         IN  <<rows[i]>> \o
             SortByCloseTime(SubSeq(rows, 1, i - 1) \o SubSeq(rows, i + 1, Len(rows)))

DateColumn(rows) == [i \in 1..Len(rows) |-> rows[i].date]

\* lines 656-660 and 277-281
AllDatesConcatOnly(position_times_sorted, bal) ==
    SortAscending(Unique(DateColumn(position_times_sorted)) \o Unique(DateColumn(bal)))

AllDates(position_times_sorted, bal) ==
    SortAscending(Unique(Unique(DateColumn(position_times_sorted))
                         \o Unique(DateColumn(bal))))

\* lines 668-671 and 289-292
DailyBalanceChange(bal, date) ==
    LET OnDate(r) == r.date = date
    IN  ColumnSum(SelectSeq(bal, OnDate), "profit")

\* lines 665, 674 and 286, 295
DailyTradingProfitGross(position_times_sorted, date) ==
    LET OnDate(r) == r.date = date
    IN  ColumnSum(SelectSeq(position_times_sorted, OnDate), "profit")

DailyTradingProfit(position_times_sorted, date) ==
    LET OnDate(r) == r.date = date
    IN  ColumnSum(SelectSeq(position_times_sorted, OnDate), "total_profit")

\* lines 679-683
UpdateMaxEquity(max_eq, cur, change) ==
    IF change >= 0
    THEN PyMax(max_eq, Fin(cur - change))
    ELSE PyMax(NumMul(max_eq, NumDiv(Fin(cur), Fin(cur - change))), Fin(cur))

\* line 686
Drawdown(max_eq, cur) ==
    NumMul(NumDiv(NumSub(max_eq, Fin(cur)), max_eq), Fin(100))

\* lines 643-660
AnalyzeTradesByDay ==
    /\ pc = "calculated"
    /\ IF Len(position_times) = 0
       THEN /\ pc' = "empty"
            /\ UNCHANGED equityVars
       ELSE /\ pc' = "loop"
            /\ current_equity' = initial_equity
            /\ max_equity' = Fin(initial_equity)
            /\ max_drawdown' = Fin(0)
            /\ all_dates' = AllDates(SortByCloseTime(position_times), balance_df)
            /\ idx' = 0
            /\ UNCHANGED <<drawdown, daily_balance_change, daily_trading_profit,
                           zero_divide, equity_data>>
    /\ UNCHANGED <<deals, orders, orders_dict, df, balance_df, position_times>>
    /\ UNCHANGED summaryVars
    /\ UNCHANGED serverVars

\* one iteration of the loop of lines 663-687
EquityDay ==
    /\ pc = "loop"
    /\ idx < Len(all_dates)
    /\ LET date == all_dates[idx + 1]
           change == DailyBalanceChange(balance_df, date)
           trading == DailyTradingProfit(SortByCloseTime(position_times), date)
           cur == current_equity + change + trading
           max_eq == UpdateMaxEquity(max_equity, cur, change)
           dd == Drawdown(max_eq, cur)
       IN  /\ daily_balance_change' = change
           /\ daily_trading_profit' = trading
           /\ current_equity' = cur
           /\ max_equity' = max_eq
           /\ drawdown' = dd
           /\ max_drawdown' = PyMax(max_drawdown, dd)
           /\ zero_divide' =
                  {e \in {"rescale"} : change < 0 /\ cur - change = 0}
                  \cup {e \in {"drawdown"} : IsZero(max_eq)}
    /\ idx' = idx + 1
    /\ UNCHANGED <<pc, deals, orders, orders_dict, df, balance_df, position_times,
                   all_dates, equity_data>>
    /\ UNCHANGED summaryVars
    /\ UNCHANGED serverVars

-----------------------------------------------------------------------------
(* save_daily_trades: the equity table *)

\* the loop of lines 284-307 over dates, starting from an equity of cur0
RECURSIVE EquityData(_, _, _, _)
EquityData(dates, position_times_sorted, bal, cur0) ==
    IF dates = <<>> THEN <<>>
    ELSE LET date == Head(dates)
             change == DailyBalanceChange(bal, date)
             trading == DailyTradingProfit(position_times_sorted, date)
             cur == cur0 + change + trading
         IN  <<[date |-> date,
                trading_profit |-> trading,
                balance_change |-> change,
                equity |-> cur,
                equity_pct |-> NumMul(NumSub(NumDiv(Fin(cur), Fin(initial_equity)),
                                             Fin(1)), Fin(100))]>>
             \o EquityData(Tail(dates), position_times_sorted, bal, cur)

\* Series.mean() of a non-empty integer column
Mean(rows, col) == NumDiv(Fin(ColumnSum(rows, col)), Fin(Len(rows)))

\* lines 728-735 and 319-325, 372: the win / loss figures of one group
GroupStatsCountGuard(group) ==
    LET IsProfit(r) == r.is_profit
        IsLoss(r) == ~r.is_profit
        profit_trades == SelectSeq(group, IsProfit)
        loss_trades == SelectSeq(group, IsLoss)
        avg_profit_points ==
            IF Len(profit_trades) > 0 THEN Mean(profit_trades, "price_change") ELSE Fin(0)
        avg_loss_points ==
            IF Len(loss_trades) > 0 THEN Mean(loss_trades, "price_change") ELSE Fin(0)
    IN  [total |-> Len(group),
         profit_count |-> Len(profit_trades),
         loss_count |-> Len(loss_trades),
         win_rate |->
            IF Len(group) > 0
            THEN NumMul(NumDiv(Fin(Len(profit_trades)), Fin(Len(group))), Fin(100))
            ELSE Fin(0),
         avg_profit_points |-> avg_profit_points,
         avg_loss_points |-> avg_loss_points,
         profit_loss_ratio |->
            IF Len(loss_trades) > 0
            THEN NumDiv(avg_profit_points, avg_loss_points)
            ELSE Fin(0)]

GroupStats(group) ==
    LET IsProfit(r) == r.is_profit
        IsLoss(r) == ~r.is_profit
        profit_trades == SelectSeq(group, IsProfit)
        loss_trades == SelectSeq(group, IsLoss)
        avg_profit_points ==
            IF Len(profit_trades) > 0 THEN Mean(profit_trades, "price_change") ELSE Fin(0)
        avg_loss_points ==
            IF Len(loss_trades) > 0 THEN Mean(loss_trades, "price_change") ELSE Fin(0)
    IN  [total |-> Len(group),
         profit_count |-> Len(profit_trades),
         loss_count |-> Len(loss_trades),
         win_rate |->
            IF Len(group) > 0
            THEN NumMul(NumDiv(Fin(Len(profit_trades)), Fin(Len(group))), Fin(100))
            ELSE Fin(0),
         avg_profit_points |-> avg_profit_points,
         avg_loss_points |-> avg_loss_points,
         profit_loss_ratio |->
            IF NumGt(avg_loss_points, Fin(0))
            THEN NumDiv(avg_profit_points, avg_loss_points)
            ELSE Fin(0)]

\* the sums of lines 373-378 and 710-716
GroupSums(group) ==
    [total_profit |-> ColumnSum(group, "total_profit"),
     pure_profit |-> ColumnSum(group, "profit"),
     commission |-> ColumnSum(group, "commission"),
     swap |-> ColumnSum(group, "swap")]

\* groupby('date'), lines 313-399: the groups come in ascending date order
DateSummaries(rows) ==
    LET dates == SortAscending(Unique(DateColumn(rows)))
    IN  [k \in 1..Len(dates) |->
            LET OnDate(r) == r.date = dates[k]
                group == SelectSeq(rows, OnDate)
            IN  [date |-> dates[k], stats |-> GroupStats(group),
                 sums |-> GroupSums(group)]]

\* line 700 after the loop has ended, lines 270-399
SaveDailyTrades ==
    /\ pc = "loop"
    /\ idx = Len(all_dates)
    /\ LET position_times_sorted == SortByCloseTime(position_times)
       IN  equity_data' = EquityData(AllDates(position_times_sorted, balance_df),
                                     position_times_sorted, balance_df, initial_equity)
    /\ date_summaries' = DateSummaries(position_times)
    /\ pc' = "saved"
    /\ UNCHANGED <<deals, orders, orders_dict, df, balance_df, position_times,
                   all_dates, idx, current_equity, max_equity, max_drawdown,
                   drawdown, daily_balance_change, daily_trading_profit, zero_divide,
                   daily_stats, daily_summary>>
    /\ UNCHANGED serverVars

-----------------------------------------------------------------------------
(* analyze_trades_by_day: the table by date and symbol *)

\* the symbols of the feeds, in the order groupby sorts them
Symbols == <<"EURUSD", "XAUUSD">>

\* the keys of groupby(['date', 'symbol']), sorted
DateSymbolKeys(rows) ==
    LET dates == SortAscending(Unique(DateColumn(rows)))
        n == Len(Symbols)
        all == [k \in 1..(Len(dates) * n) |->
                   <<dates[((k - 1) \div n) + 1], Symbols[((k - 1) % n) + 1]>>]
        Present(key) == \E i \in 1..Len(rows) :
                            rows[i].date = key[1] /\ rows[i].symbol = key[2]
    IN  SelectSeq(all, Present)

\* lines 705-737
DailyStats(rows) ==
    LET keys == DateSymbolKeys(rows)
    IN  [k \in 1..Len(keys) |->
            LET InGroup(r) == r.date = keys[k][1] /\ r.symbol = keys[k][2]
                group == SelectSeq(rows, InGroup)
            IN  [date |-> keys[k][1], symbol |-> keys[k][2],
                 stats |-> GroupStats(group), sums |-> GroupSums(group)]]

\* Series.round(2): to the nearest multiple of 1/100, a tie to the even one
Round2(x) ==
    IF x.k # "fin" \/ IsZero(x) THEN x
    ELSE LET y == NumMul(x, Fin(100))
             q == Abs(y.n) \div y.d
             r == Abs(y.n) % y.d
             up == 2 * r > y.d \/ (2 * r = y.d /\ q % 2 = 1)
             m == IF up THEN q + 1 ELSE q
         IN  IF m = 0 THEN Zero(x.s) ELSE NumDiv(Fin(x.s * m), Fin(100))

\* lines 748-749
RoundStats(st) ==
    [st EXCEPT !.win_rate = Round2(@), !.profit_loss_ratio = Round2(@),
               !.avg_profit_points = Round2(@), !.avg_loss_points = Round2(@)]

\* lines 702-751, after save_daily_trades has returned
DailySummary ==
    /\ pc = "saved"
    /\ daily_stats' = DailyStats(position_times)
    /\ daily_summary' =
           [k \in 1..Len(DailyStats(position_times)) |->
               [DailyStats(position_times)[k] EXCEPT !.stats = RoundStats(@)]]
    /\ pc' = "done"
    /\ UNCHANGED <<deals, orders, orders_dict, df, balance_df, position_times,
                   date_summaries>>
    /\ UNCHANGED equityVars
    /\ UNCHANGED serverVars

-----------------------------------------------------------------------------
(* The callers of get_trades_history: run_analysis of the API server       *)
(* (src/mt5_api_server.py), one thread per task, and main().  The module   *)
(* MetaTrader5 holds one connection for the whole process: initialize()    *)
(* and shutdown() take no handle, and every thread reads through it.       *)

analysisVars == <<pc, deals, orders, orders_dict, df, balance_df, position_times,
                  equityVars, summaryVars>>

Running == [status |-> "running", created_at |-> "now"]

Completed == [status |-> "completed", completed_at |-> "now"]

Failed(error) == [status |-> "failed", error |-> error, completed_at |-> "now"]

IsTerminal(record) == record.status \in {"completed", "failed"}

NoResponse == [route |-> "", task_id |-> 0, body |-> [error |-> ""]]

\* get_trades_history as its caller sees it: None when the terminal gives
\* no deals (it gives none without a connection) or no position is
\* completed, the pair (df, balance_df) otherwise
HistoryReturn(connected, history) ==
    IF ~connected \/ history.isNone THEN None
    ELSE LET d == BuildOrdersDict(<<>>)
             withSlTp == [i \in 1..Len(history.val) |-> AttachSlTp(d, history.val[i])]
             kept == KeepCompleted(withSlTp)
         IN  IF Len(kept) = 0 THEN None
             ELSE Some(<<Some(kept), BalanceRows(history.val)>>)

\* trades_df, balance_df = get_trades_history(): None cannot be unpacked
UnpackError == "cannot unpack non-iterable NoneType object"

FileExistsError == "[Errno 17] File exists: 'trade-data'"

\* analyze_trades_by_day reaches save_daily_trades: position_times is not empty
ReachesSave(trades_df) ==
    \E data \in PositionData(trades_df,
                             Unique([i \in 1..Len(trades_df) |-> trades_df[i].position_id])) :
        data # <<>>

\* tasks[task_id] = record, by the writer by
Assign(task_id, record, by) ==
    /\ tasks' = [tasks EXCEPT ![task_id] = record]
    /\ writes' = [writes EXCEPT ![task_id] =
                     Append(@, [by |-> by, status |-> record.status])]

\* the handler of POST /analyze
StartAnalysis ==
    /\ Len(tasks) < MaxTasks
    /\ LET task_id == Len(tasks) + 1
       IN  /\ tasks' = Append(tasks, Running)
           /\ writes' = Append(writes, <<[by |-> 0, status |-> "running"]>>)
           /\ wpc' = Append(wpc, "initialize")
           /\ wret' = Append(wret, None)
           /\ wexc' = Append(wexc, "")
           /\ response' = [route |-> "analyze", task_id |-> task_id,
                           body |-> [task_id |-> task_id, status |-> "running"]]
    /\ UNCHANGED <<terminal_deals, mt5_initialized, trade_data, mpc, mexc>>
    /\ UNCHANGED analysisVars

\* the handler of GET /task/<task_id>
GetTaskStatus ==
    /\ \E task_id \in 1..MaxTasks :
          response' = [route |-> "task", task_id |-> task_id,
                       body |-> IF task_id \in DOMAIN tasks THEN tasks[task_id]
                                ELSE [error |-> "Task not found"]]
    /\ UNCHANGED <<terminal_deals, mt5_initialized, trade_data, tasks, wpc, wret,
                   wexc, writes, mpc, mexc>>
    /\ UNCHANGED analysisVars

\* lines 29-35
InitializeSilent(t) ==
    /\ t \in DOMAIN wpc
    /\ wpc[t] = "initialize"
    /\ \E ok \in BOOLEAN :
          IF ok
          THEN /\ mt5_initialized' = TRUE
               /\ wpc' = [wpc EXCEPT ![t] = "get_trades_history"]
          ELSE /\ wpc' = [wpc EXCEPT ![t] = "finally"]
               /\ UNCHANGED mt5_initialized
    /\ UNCHANGED <<tasks, writes>>
    /\ UNCHANGED <<terminal_deals, trade_data, wret, wexc, response, mpc, mexc>>
    /\ UNCHANGED analysisVars

Initialize(t) ==
    /\ t \in DOMAIN wpc
    /\ wpc[t] = "initialize"
    /\ \E ok \in BOOLEAN :
          IF ok
          THEN /\ mt5_initialized' = TRUE
               /\ wpc' = [wpc EXCEPT ![t] = "get_trades_history"]
               /\ UNCHANGED <<tasks, writes>>
          ELSE /\ Assign(t, Failed("Failed to connect to MT5"), t)
               /\ wpc' = [wpc EXCEPT ![t] = "finally"]
               /\ UNCHANGED mt5_initialized
    /\ UNCHANGED <<terminal_deals, trade_data, wret, wexc, response, mpc, mexc>>
    /\ UNCHANGED analysisVars

\* lines 38-40 and 49-54; the reads of get_trades_history are taken as one
RunGetTradesHistory(t) ==
    /\ t \in DOMAIN wpc
    /\ wpc[t] = "get_trades_history"
    /\ LET ret == HistoryReturn(mt5_initialized, terminal_deals)
       IN  IF ret.isNone
           THEN /\ wexc' = [wexc EXCEPT ![t] = UnpackError]
                /\ wpc' = [wpc EXCEPT ![t] = "except"]
                /\ UNCHANGED <<wret, tasks, writes>>
           ELSE IF ~ret.val[1].isNone
           THEN /\ wret' = [wret EXCEPT ![t] = ret]
                /\ wpc' = [wpc EXCEPT ![t] = "analyze"]
                /\ UNCHANGED <<wexc, tasks, writes>>
           ELSE /\ Assign(t, Failed("No trade data found"), t)
                /\ wpc' = [wpc EXCEPT ![t] = "finally"]
                /\ UNCHANGED <<wret, wexc>>
    /\ UNCHANGED <<terminal_deals, mt5_initialized, trade_data, response, mpc, mexc>>
    /\ UNCHANGED analysisVars

\* line 42 up to the test of line 267 of save_daily_trades
Analyze(t) ==
    /\ t \in DOMAIN wpc
    /\ wpc[t] = "analyze"
    /\ wpc' = [wpc EXCEPT ![t] =
                  IF ReachesSave(wret[t].val[1].val) /\ ~trade_data
                  THEN "makedirs" ELSE "record"]
    /\ UNCHANGED <<terminal_deals, mt5_initialized, trade_data, tasks, wret, wexc,
                   writes, response, mpc, mexc>>
    /\ UNCHANGED analysisVars

\* line 268 of save_daily_trades, and the rest of the analysis
Makedirs(t) ==
    /\ t \in DOMAIN wpc
    /\ wpc[t] = "makedirs"
    /\ IF trade_data
       THEN /\ wexc' = [wexc EXCEPT ![t] = FileExistsError]
            /\ wpc' = [wpc EXCEPT ![t] = "except"]
            /\ UNCHANGED trade_data
       ELSE /\ trade_data' = TRUE
            /\ wpc' = [wpc EXCEPT ![t] = "record"]
            /\ UNCHANGED wexc
    /\ UNCHANGED <<terminal_deals, mt5_initialized, tasks, wret, writes, response,
                   mpc, mexc>>
    /\ UNCHANGED analysisVars

\* lines 45-48
RecordCompleted(t) ==
    /\ t \in DOMAIN wpc
    /\ wpc[t] = "record"
    /\ Assign(t, Completed, t)
    /\ wpc' = [wpc EXCEPT ![t] = "finally"]
    /\ UNCHANGED <<terminal_deals, mt5_initialized, trade_data, wret, wexc,
                   response, mpc, mexc>>
    /\ UNCHANGED analysisVars

\* lines 55-60
RecordExceptionAll(t) ==
    /\ t \in DOMAIN wpc
    /\ wpc[t] = "except"
    /\ tasks' = [u \in DOMAIN tasks |-> Failed(wexc[t])]
    /\ writes' = [u \in DOMAIN writes |->
                     Append(writes[u], [by |-> t, status |-> "failed"])]
    /\ wpc' = [wpc EXCEPT ![t] = "finally"]
    /\ UNCHANGED <<terminal_deals, mt5_initialized, trade_data, wret, wexc,
                   response, mpc, mexc>>
    /\ UNCHANGED analysisVars

RecordException(t) ==
    /\ t \in DOMAIN wpc
    /\ wpc[t] = "except"
    /\ Assign(t, Failed(wexc[t]), t)
    /\ wpc' = [wpc EXCEPT ![t] = "finally"]
    /\ UNCHANGED <<terminal_deals, mt5_initialized, trade_data, wret, wexc,
                   response, mpc, mexc>>
    /\ UNCHANGED analysisVars

\* lines 61-63
Shutdown(t) ==
    /\ t \in DOMAIN wpc
    /\ wpc[t] = "finally"
    /\ mt5_initialized' = FALSE
    /\ wpc' = [wpc EXCEPT ![t] = "done"]
    /\ UNCHANGED <<terminal_deals, trade_data, tasks, wret, wexc, writes, response,
                   mpc, mexc>>
    /\ UNCHANGED analysisVars

Worker(t) ==
    \/ Initialize(t)
    \/ RunGetTradesHistory(t)
    \/ Analyze(t)
    \/ Makedirs(t)
    \/ RecordCompleted(t)
    \/ RecordException(t)
    \/ Shutdown(t)

\* main(), lines 802-804
MainConnect ==
    /\ mpc = "connect_mt5"
    /\ \E ok \in BOOLEAN :
          IF ok
          THEN mt5_initialized' = TRUE /\ mpc' = "get_trades_history"
          ELSE mt5_initialized' = mt5_initialized /\ mpc' = "returned"
    /\ UNCHANGED <<terminal_deals, trade_data, tasks, wpc, wret, wexc, writes,
                   response, mexc>>
    /\ UNCHANGED analysisVars

\* line 808
MainGetTradesHistory ==
    /\ mpc = "get_trades_history"
    /\ IF HistoryReturn(mt5_initialized, terminal_deals).isNone
       THEN mexc' = UnpackError /\ mpc' = "finally"
       ELSE mexc' = mexc /\ mpc' = "analyze"
    /\ UNCHANGED <<terminal_deals, mt5_initialized, trade_data, tasks, wpc, wret,
                   wexc, writes, response>>
    /\ UNCHANGED analysisVars

\* lines 810-819
MainAnalyze ==
    /\ mpc = "analyze"
    /\ trade_data' =
          (trade_data \/
           ReachesSave(HistoryReturn(mt5_initialized, terminal_deals).val[1].val))
    /\ mpc' = "finally"
    /\ UNCHANGED <<terminal_deals, mt5_initialized, tasks, wpc, wret, wexc, writes,
                   response, mexc>>
    /\ UNCHANGED analysisVars

\* lines 821-823: the exception, if any, leaves main() after the shutdown
MainShutdown ==
    /\ mpc = "finally"
    /\ mt5_initialized' = FALSE
    /\ mpc' = IF mexc = "" THEN "returned" ELSE "raised"
    /\ UNCHANGED <<terminal_deals, trade_data, tasks, wpc, wret, wexc, writes,
                   response, mexc>>
    /\ UNCHANGED analysisVars

-----------------------------------------------------------------------------
(* The specifications *)

Next ==
    \/ GetTradesHistory
    \/ CalculatePositionTimes
    \/ AnalyzeTradesByDay
    \/ EquityDay
    \/ SaveDailyTrades
    \/ DailySummary

\* the API server has accepted no job
NoTasks ==
    /\ tasks = <<>>
    /\ wpc = <<>>
    /\ wret = <<>>
    /\ wexc = <<>>
    /\ writes = <<>>
    /\ response = NoResponse

\* the state before get_trades_history is called
InitRun ==
    /\ pc = "start"
    /\ orders_dict = BuildOrdersDict(<<>>)
    /\ df = <<>>
    /\ balance_df = <<>>
    /\ position_times = <<>>
    /\ all_dates = <<>>
    /\ idx = 0
    /\ current_equity = initial_equity
    /\ max_equity = Fin(initial_equity)
    /\ max_drawdown = Fin(0)
    /\ drawdown = Fin(0)
    /\ daily_balance_change = 0
    /\ daily_trading_profit = 0
    /\ zero_divide = {}
    /\ equity_data = <<>>
    /\ date_summaries = <<>>
    /\ daily_stats = <<>>
    /\ daily_summary = <<>>
    /\ terminal_deals = None
    /\ mt5_initialized = TRUE
    /\ trade_data = FALSE
    /\ NoTasks
    /\ mpc = "idle"
    /\ mexc = ""

\* a trade deal whose amounts identify it: the sum of the profits of a set
\* of deals tells which deals were added
TradeDeal(ticket, pid, time, entry) ==
    [ticket |-> ticket, position_id |-> pid, time |-> time, entry |-> entry,
     type |-> DEAL_TYPE_BUY, symbol |-> "EURUSD", price |-> 100 + ticket,
     profit |-> Pow(-2, ticket), commission |-> -ticket, swap |-> 2 - ticket]

DealFeeds ==
    {[i \in 1..Len(s) |-> TradeDeal(i, s[i][1], s[i][2], s[i][3])] :
        s \in SeqsUpTo(PositionIds \X (1..MaxTime) \X {DEAL_ENTRY_IN, DEAL_ENTRY_OUT},
                       MaxDeals) \ {<<>>}}

Init ==
    /\ InitRun
    /\ deals \in DealFeeds
    /\ orders = <<>>

Spec == Init /\ [][Next]_vars

\* the order history varied, over deal feeds of two positions
OrderFeeds ==
    {<<TradeDeal(1, 1, 1, DEAL_ENTRY_IN), TradeDeal(2, 1, 2, DEAL_ENTRY_OUT),
       TradeDeal(3, 2, 1, DEAL_ENTRY_IN), TradeDeal(4, 2, 3, DEAL_ENTRY_OUT)>>,
     <<TradeDeal(1, 2, 1, DEAL_ENTRY_IN), TradeDeal(2, 2, 2, DEAL_ENTRY_OUT),
       TradeDeal(3, 2, 3, DEAL_ENTRY_OUT), TradeDeal(4, 1, 3, DEAL_ENTRY_IN)>>}

OrderHistories ==
    SeqsUpTo([position_id : PositionIds, sl : StopLevels, tp : TakeLevels], MaxOrders)

InitOrders ==
    /\ InitRun
    /\ deals \in OrderFeeds
    /\ orders \in OrderHistories

SpecOrders == InitOrders /\ [][Next]_vars

\* closed positions and balance deals varied: the feed is a sequence of
\* events, event i being either a position (position_id i) opened and
\* closed on one day with a total result of pnl, or a balance deal, which
\* carries position_id 0
DayTrade(i, date, pnl) ==
    <<[ticket |-> 2 * i - 1, position_id |-> i, time |-> date * DayLen,
       entry |-> DEAL_ENTRY_IN, type |-> DEAL_TYPE_BUY, symbol |-> "EURUSD",
       price |-> 100, profit |-> 0, commission |-> -7, swap |-> 0],
      [ticket |-> 2 * i, position_id |-> i, time |-> date * DayLen,
       entry |-> DEAL_ENTRY_OUT, type |-> DEAL_TYPE_BUY, symbol |-> "EURUSD",
       price |-> 100 + i, profit |-> pnl + 10, commission |-> 0, swap |-> -3]>>

BalanceDeal(i, date, amount) ==
    <<[ticket |-> 2 * i, position_id |-> 0, time |-> date * DayLen,
       entry |-> DEAL_ENTRY_IN, type |-> DEAL_TYPE_BALANCE, symbol |-> "",
       price |-> 0, profit |-> amount, commission |-> 0, swap |-> 0]>>

RECURSIVE EventDeals(_)
EventDeals(es) ==
    IF es = <<>> THEN <<>>
    ELSE LET i == Len(es)
             e == es[i]
         IN  EventDeals(SubSeq(es, 1, i - 1)) \o
             (IF e[2] = "trade" THEN DayTrade(i, e[1], e[3])
              ELSE BalanceDeal(i, e[1], e[3]))

EquityFeeds ==
    {EventDeals(es) :
        es \in SeqsUpTo(((1..MaxDate) \X {"trade"} \X TradeProfits)
                        \cup ((1..MaxDate) \X {"balance"} \X BalanceAmounts),
                        MaxEvents)}

InitEquity ==
    /\ InitRun
    /\ deals \in EquityFeeds
    /\ orders = <<>>

SpecEquity == InitEquity /\ [][Next]_vars

\* withdrawals varied over a chronological feed: day d has at most one
\* position closing and at most one withdrawal, and at least one of them
DayPatterns ==
    {p \in [trade : SeqsUpTo(RescaleProfits, 1),
            withdrawal : SeqsUpTo(RescaleWithdrawals, 1)] :
        Len(p.trade) + Len(p.withdrawal) > 0}

RECURSIVE DayDeals(_)
DayDeals(ds) ==
    IF ds = <<>> THEN <<>>
    ELSE LET d == Len(ds)
             p == ds[d]
         IN  DayDeals(SubSeq(ds, 1, d - 1))
             \o (IF p.trade = <<>> THEN <<>> ELSE DayTrade(2 * d - 1, d, p.trade[1]))
             \o (IF p.withdrawal = <<>> THEN <<>>
                 ELSE BalanceDeal(2 * d, d, p.withdrawal[1]))

RescaleFeeds == {DayDeals(ds) : ds \in SeqsUpTo(DayPatterns, MaxDays)}

InitRescale ==
    /\ InitRun
    /\ deals \in RescaleFeeds
    /\ orders = <<>>

SpecRescale == InitRescale /\ [][Next]_vars

\* the groups of the summaries varied: position i closes on the date and in
\* the symbol of its group, with the given profit and price change
StatTrade(i, group, profit, change) ==
    <<[ticket |-> 2 * i - 1, position_id |-> i, time |-> group[1] * DayLen,
       entry |-> DEAL_ENTRY_IN, type |-> DEAL_TYPE_BUY, symbol |-> group[2],
       price |-> 100, profit |-> 0, commission |-> 0, swap |-> 0],
      [ticket |-> 2 * i, position_id |-> i, time |-> group[1] * DayLen,
       entry |-> DEAL_ENTRY_OUT, type |-> DEAL_TYPE_BUY, symbol |-> group[2],
       price |-> 100 + change, profit |-> profit, commission |-> -1, swap |-> 0]>>

RECURSIVE StatDeals(_)
StatDeals(ps) ==
    IF ps = <<>> THEN <<>>
    ELSE LET i == Len(ps)
         IN  StatDeals(SubSeq(ps, 1, i - 1))
             \o StatTrade(i, ps[i][1], ps[i][2], ps[i][3])

StatFeeds ==
    {StatDeals(ps) :
        ps \in SeqsUpTo(StatGroups \X StatProfits \X StatChanges, MaxPositions) \ {<<>>}}

InitStats ==
    /\ InitRun
    /\ deals \in StatFeeds
    /\ orders = <<>>

SpecStats == InitStats /\ [][Next]_vars

\* the analysis itself at rest: only its callers move
InitCallerVars ==
    /\ pc = "start"
    /\ deals = <<>>
    /\ orders = <<>>
    /\ orders_dict = BuildOrdersDict(<<>>)
    /\ df = <<>>
    /\ balance_df = <<>>
    /\ position_times = <<>>
    /\ all_dates = <<>>
    /\ idx = 0
    /\ current_equity = initial_equity
    /\ max_equity = Fin(initial_equity)
    /\ max_drawdown = Fin(0)
    /\ drawdown = Fin(0)
    /\ daily_balance_change = 0
    /\ daily_trading_profit = 0
    /\ zero_divide = {}
    /\ equity_data = <<>>
    /\ date_summaries = <<>>
    /\ daily_stats = <<>>
    /\ daily_summary = <<>>

\* one caller of get_trades_history, main() or the worker of one accepted
\* job, over a terminal whose deal feed is absent or is any short feed
CallerFeeds == {f \in DealFeeds : Len(f) <= MaxCallerDeals}

InitCallers ==
    /\ InitCallerVars
    /\ terminal_deals \in {None} \cup {Some(f) : f \in CallerFeeds \cup {<<>>}}
    /\ mt5_initialized = FALSE
    /\ trade_data \in BOOLEAN
    /\ mexc = ""
    /\ \/ /\ mpc = "connect_mt5"
          /\ NoTasks
       \/ /\ mpc = "idle"
          /\ tasks = <<Running>>
          /\ wpc = <<"initialize">>
          /\ wret = <<None>>
          /\ wexc = <<"">>
          /\ writes = << <<[by |-> 0, status |-> "running"]>> >>
          /\ response = [route |-> "analyze", task_id |-> 1,
                         body |-> [task_id |-> 1, status |-> "running"]]

NextCallers ==
    \/ \E t \in 1..MaxTasks : Initialize(t)
    \/ \E t \in 1..MaxTasks : RunGetTradesHistory(t)
    \/ \E t \in 1..MaxTasks : Analyze(t)
    \/ \E t \in 1..MaxTasks : Makedirs(t)
    \/ \E t \in 1..MaxTasks : RecordCompleted(t)
    \/ \E t \in 1..MaxTasks : RecordException(t)
    \/ \E t \in 1..MaxTasks : Shutdown(t)
    \/ MainConnect
    \/ MainGetTradesHistory
    \/ MainAnalyze
    \/ MainShutdown

SpecCallers == InitCallers /\ [][NextCallers]_vars

\* the API server: jobs are accepted, run in threads of one process and are
\* polled, over a terminal whose deal feed is one of ServerFeeds
ServerFeeds ==
    {<<TradeDeal(1, 1, 1, DEAL_ENTRY_IN)>>,
     <<TradeDeal(1, 1, 1, DEAL_ENTRY_IN), TradeDeal(2, 1, 2, DEAL_ENTRY_IN)>>,
     <<TradeDeal(1, 1, 1, DEAL_ENTRY_IN), TradeDeal(2, 1, 2, DEAL_ENTRY_OUT)>>}

InitServer ==
    /\ InitCallerVars
    /\ terminal_deals \in {Some(f) : f \in ServerFeeds}
    /\ mt5_initialized = FALSE
    /\ trade_data \in BOOLEAN
    /\ NoTasks
    /\ mpc = "idle"
    /\ mexc = ""

NextServer ==
    \/ StartAnalysis
    \/ GetTaskStatus
    \/ \E t \in 1..MaxTasks : Initialize(t)
    \/ \E t \in 1..MaxTasks : RunGetTradesHistory(t)
    \/ \E t \in 1..MaxTasks : Analyze(t)
    \/ \E t \in 1..MaxTasks : Makedirs(t)
    \/ \E t \in 1..MaxTasks : RecordCompleted(t)
    \/ \E t \in 1..MaxTasks : RecordException(t)
    \/ \E t \in 1..MaxTasks : Shutdown(t)

SpecServer == InitServer /\ [][NextServer]_vars

\* a started thread is scheduled again and again until run_analysis returns
SpecServerFair ==
    /\ InitServer
    /\ [][NextServer]_vars
    /\ \A t \in 1..MaxTasks : WF_vars(Worker(t))

-----------------------------------------------------------------------------
(* Properties *)

\* calculate_position_times has run, or get_trades_history returned None
Matched == pc \in {"nodata", "calculated", "empty", "loop", "saved", "done"}

\* the loop has processed at least one date
InLoop == pc \in {"loop", "saved", "done"} /\ idx > 0

DealsOf(pid) == {d \in Range(deals) : d.position_id = pid}

InDealsOf(pid) == {d \in DealsOf(pid) : d.entry = DEAL_ENTRY_IN}

OutDealsOf(pid) == {d \in DealsOf(pid) : d.entry = DEAL_ENTRY_OUT}

RowsOf(pid) == {i \in 1..Len(position_times) : position_times[i].position_id = pid}

RECURSIVE SetSum(_, _)
SetSum(S, col) ==
    IF S = {} THEN 0
    ELSE LET x == CHOOSE y \in S : TRUE
         IN  x[col] + SetSum(S \ {x}, col)

\* C1: a position_id whose group has at least two deals, among them an IN
\* and an OUT deal, yields exactly one closed position; a group of one deal,
\* or of only IN or only OUT deals, yields none.
C1_MatchingPolicy ==
    Matched =>
        \A pid \in {d.position_id : d \in Range(deals)} :
            Cardinality(RowsOf(pid)) =
                IF /\ Cardinality(DealsOf(pid)) >= 2
                   /\ InDealsOf(pid) # {}
                   /\ OutDealsOf(pid) # {}
                THEN 1 ELSE 0

C1_Witness ==
    /\ pc = "calculated"
    /\ \E p, q \in PositionIds :
          /\ Cardinality(DealsOf(p)) >= 2 /\ Cardinality(RowsOf(p)) = 1
          /\ Cardinality(DealsOf(q)) = 1 /\ RowsOf(q) = {}

\* C2: open_time / open_price are those of the earliest IN deal, close_time /
\* close_price those of the latest OUT deal, and holding_time is the
\* non-negative time between exactly those two deals.
C2_OpenCloseRecords ==
    Matched =>
        \A i \in 1..Len(position_times) :
            LET p == position_times[i]
                ins == InDealsOf(p.position_id)
                outs == OutDealsOf(p.position_id)
            IN  \E o \in ins, c \in outs :
                    /\ \A x \in ins : o.time <= x.time
                    /\ \A x \in outs : c.time >= x.time
                    /\ p.open_time = o.time /\ p.open_price = o.price
                    /\ p.close_time = c.time /\ p.close_price = c.price
                    /\ p.holding_time = c.time - o.time
                    /\ p.holding_time >= 0

\* C3: a non-zero resolved stop_loss gives close_type sl and slippage
\* |close_price - stop_loss| even when take_profit is set too; otherwise a
\* non-zero take_profit gives tp and |close_price - take_profit|; otherwise
\* market with slippage 0.  Slippage is never negative.
ResolvedLevel(pid, field) ==
    IF pid \in DOMAIN orders_dict THEN orders_dict[pid][field] ELSE 0

C3_SlippageClassification ==
    Matched =>
        \A i \in 1..Len(position_times) :
            LET p == position_times[i]
                stop == ResolvedLevel(p.position_id, "sl")
                take == ResolvedLevel(p.position_id, "tp")
            IN  /\ p.slippage >= 0
                /\ stop # 0 =>
                      p.close_type = "sl" /\ p.slippage = Abs(p.close_price - stop)
                /\ stop = 0 /\ take # 0 =>
                      p.close_type = "tp" /\ p.slippage = Abs(p.close_price - take)
                /\ stop = 0 /\ take = 0 =>
                      p.close_type = "market" /\ p.slippage = 0

C3_Witness ==
    /\ pc = "calculated"
    /\ \E i \in 1..Len(position_times) :
          /\ ResolvedLevel(position_times[i].position_id, "sl") # 0
          /\ ResolvedLevel(position_times[i].position_id, "tp") # 0
          /\ position_times[i].close_type = "sl"
          /\ position_times[i].slippage > 0
    /\ \E i \in 1..Len(position_times) : position_times[i].close_type = "tp"

\* C4: profit, commission and swap of a closed position are the sums over
\* all deals of its group, and total_profit is the sum of the three.
C4_SumsOverAllDeals ==
    Matched =>
        \A i \in 1..Len(position_times) :
            LET p == position_times[i]
                group == DealsOf(p.position_id)
            IN  /\ p.profit = SetSum(group, "profit")
                /\ p.commission = SetSum(group, "commission")
                /\ p.swap = SetSum(group, "swap")
                /\ p.total_profit = p.profit + p.commission + p.swap

C4_Witness ==
    /\ pc = "calculated"
    /\ \E i \in 1..Len(position_times) :
          LET pid == position_times[i].position_id
          IN  /\ Cardinality(OutDealsOf(pid)) >= 2
              /\ Cardinality(InDealsOf(pid)) >= 1
              /\ position_times[i].profit = SetSum(DealsOf(pid), "profit")

\* C5: the resolved stop_loss of a position is that of its last order with
\* a non-zero stop_loss, 0 if it has none, and the same holds independently
\* for take_profit; a position without orders has no entry.
LastNonZero(pid, field) ==
    LET I == {i \in 1..Len(orders) :
                orders[i].position_id = pid /\ orders[i][field] # 0}
    IN  IF I = {} THEN 0 ELSE orders[Max(I)][field]

C5_SparseOverwrite ==
    pc # "start" =>
        /\ DOMAIN orders_dict = {o.position_id : o \in Range(orders)}
        /\ \A pid \in DOMAIN orders_dict :
              /\ orders_dict[pid].sl = LastNonZero(pid, "sl")
              /\ orders_dict[pid].tp = LastNonZero(pid, "tp")

C5_Witness ==
    /\ pc = "fetched"
    /\ \E i, j \in 1..Len(orders) :
          /\ i < j
          /\ orders[i].position_id = orders[j].position_id
          /\ orders[i].sl # 0 /\ orders[j].sl = 0
          /\ orders[i].tp = 0 /\ orders[j].tp # 0
          /\ orders_dict[orders[i].position_id] =
                [sl |-> orders[i].sl, tp |-> orders[j].tp]

\* C6: the equity table has exactly one row for each date on which a
\* position closed or a balance deal was booked, no other row, and its
\* dates strictly ascend.
BalanceDates ==
    {DateOf(d.time) : d \in {x \in Range(deals) :
        x.entry = DEAL_ENTRY_IN /\ x.type \in {DEAL_TYPE_BALANCE, DEAL_TYPE_CREDIT}}}

CloseDates == {position_times[i].date : i \in 1..Len(position_times)}

C6_EquityPointDates ==
    pc = "saved" =>
        /\ {equity_data[i].date : i \in 1..Len(equity_data)} = CloseDates \cup BalanceDates
        /\ \A i \in 1..Len(equity_data) - 1 :
              equity_data[i].date < equity_data[i + 1].date

C6_Witness ==
    /\ pc = "saved"
    /\ Len(equity_data) >= 2
    /\ CloseDates \cap BalanceDates # {}
    /\ CloseDates \ BalanceDates # {}

\* C7: whenever max_equity is positive, the drawdown of the day lies
\* between 0 and 100.
C7_DrawdownBound ==
    (InLoop /\ NumGt(max_equity, Fin(0))) =>
        NumGe(drawdown, Fin(0)) /\ NumGe(Fin(100), drawdown)

\* C8: on a withdrawal day whose equity before the withdrawal is 0, no
\* division by that 0 is made and max_equity becomes current_equity.
C8_WithdrawalGuard ==
    (InLoop /\ daily_balance_change < 0
            /\ current_equity - daily_balance_change = 0) =>
        "rescale" \notin zero_divide /\ max_equity = Fin(current_equity)

\* C9: whenever max_equity is not positive, the drawdown of the day is 0
\* and no division by zero is made.
C9_BaselineGuard ==
    (InLoop /\ NumGe(Fin(0), max_equity)) =>
        NumEq(drawdown, Fin(0)) /\ "drawdown" \notin zero_divide

\* C10: a day with a deposit and no closing position raises current_equity
\* by exactly the deposit and leaves max_equity as it was.
C10_DepositDay ==
    [][(/\ pc = "loop"
        /\ idx' = idx + 1
        /\ all_dates[idx + 1] \in BalanceDates
        /\ all_dates[idx + 1] \notin CloseDates
        /\ daily_balance_change' >= 0)
       => (/\ current_equity' = current_equity + daily_balance_change'
           /\ max_equity' = max_equity)]_vars

RECURSIVE SumOver(_, _)
SumOver(f, S) ==
    IF S = {} THEN 0
    ELSE LET x == CHOOSE y \in S : TRUE
         IN  f[x] + SumOver(f, S \ {x})

\* C11: on a withdrawal day that leaves a positive equity, with M the
\* baseline before the day and P the equity before the withdrawal, the
\* drawdown is (M - P) / M * 100 when M >= P and 0 when P > M.
C11_WithdrawalContinuity ==
    [][(/\ pc = "loop"
        /\ idx' = idx + 1
        /\ daily_balance_change' < 0
        /\ current_equity' > 0)
       => LET M == max_equity
              P == Fin(current_equity' - daily_balance_change')
          IN  IF NumGe(M, P)
              THEN NumEq(drawdown', NumMul(NumDiv(NumSub(M, P), M), Fin(100)))
              ELSE NumEq(drawdown', Fin(0))]_vars

\* the rows of position_times of a date (any symbol: sym = "") or of a date
\* and a symbol
GroupOf(date, sym) ==
    {i \in 1..Len(position_times) :
        /\ position_times[i].date = date
        /\ sym # "" => position_times[i].symbol = sym}

Winners(G) == {i \in G : position_times[i].profit > 0}

PointsOf(G) ==
    SumOver([i \in 1..Len(position_times) |-> position_times[i].price_change], G)

\* st holds the win rate and the profit / loss ratio of the claim for the
\* group G of rows
StatsAgree(st, G) ==
    LET W == Winners(G)
        L == G \ W
        w == Cardinality(W)
        l == Cardinality(L)
    IN  /\ G # {}
        /\ NumEq(st.win_rate, NumDiv(Fin(w * 100), Fin(Cardinality(G))))
        /\ NumGe(st.win_rate, Fin(0)) /\ NumGe(Fin(100), st.win_rate)
        /\ st.profit_loss_ratio.k = "fin"
        /\ NumGe(st.profit_loss_ratio, Fin(0))
        /\ (l = 0 \/ PointsOf(L) = 0) => st.profit_loss_ratio = Fin(0)
        /\ (l > 0 /\ PointsOf(L) > 0) =>
              IF w = 0 THEN st.profit_loss_ratio = Fin(0)
              ELSE NumEq(st.profit_loss_ratio,
                         NumDiv(NumDiv(Fin(PointsOf(W)), Fin(w)),
                                NumDiv(Fin(PointsOf(L)), Fin(l))))

\* C12: in every (date, symbol) group and in every per-date group win_rate is
\* profitable_count / group_size * 100 and lies in [0, 100], a position being
\* profitable iff its summed profit is > 0; profit_loss_ratio is the mean
\* price_change of the profitable over that of the others, is >= 0, and is 0
\* without a division when there is no other position or their mean is 0.
C12_WinRateAndRatio ==
    /\ pc = "done" =>
          /\ {<<daily_stats[k].date, daily_stats[k].symbol>> : k \in 1..Len(daily_stats)}
                = {<<position_times[i].date, position_times[i].symbol>> :
                      i \in 1..Len(position_times)}
          /\ \A k \in 1..Len(daily_stats) :
                StatsAgree(daily_stats[k].stats,
                           GroupOf(daily_stats[k].date, daily_stats[k].symbol))
          /\ \A k \in 1..Len(daily_summary) :
                /\ NumGe(daily_summary[k].stats.win_rate, Fin(0))
                /\ NumGe(Fin(100), daily_summary[k].stats.win_rate)
                /\ NumGe(daily_summary[k].stats.profit_loss_ratio, Fin(0))
    /\ pc \in {"saved", "done"} =>
          /\ {date_summaries[k].date : k \in 1..Len(date_summaries)} = CloseDates
          /\ \A k \in 1..Len(date_summaries) :
                StatsAgree(date_summaries[k].stats, GroupOf(date_summaries[k].date, ""))

C12_Witness ==
    /\ pc = "done"
    /\ \E k \in 1..Len(daily_stats) :
          /\ daily_stats[k].stats.profit_count > 0
          /\ daily_stats[k].stats.loss_count > 0
          /\ NumGt(daily_stats[k].stats.profit_loss_ratio, Fin(0))
    /\ \E k \in 1..Len(date_summaries) :
          /\ date_summaries[k].stats.loss_count > 0
          /\ IsZero(date_summaries[k].stats.avg_loss_points)
          /\ \E i \in GroupOf(date_summaries[k].date, "") :
                position_times[i].profit = 0

\* the terminal has no deal feed or no completed position in it
NoTradeData == HistoryReturn(TRUE, terminal_deals).isNone

\* C13: when get_trades_history has nothing to return, main() returns
\* normally after the shutdown and run_analysis, once connected, records the
\* task as failed with the error "No trade data found".
C13_NoTradeData ==
    NoTradeData =>
        /\ mpc # "raised"
        /\ \A t \in DOMAIN tasks :
              (wpc[t] = "done" /\ tasks[t] # Failed("Failed to connect to MT5"))
                  => tasks[t] = Failed("No trade data found")

\* C14: no job depends on state another job changes: a job that has connected
\* and has not yet read the account history still has its connection (no
\* other job's shutdown closes it), and no job fails on the directory
\* trade-data that another job has created meanwhile.
C14_ConnectionIsolation ==
    \A t \in DOMAIN wpc :
        /\ wpc[t] = "get_trades_history" => mt5_initialized
        /\ wexc[t] # FileExistsError

\* C15: tasks[task_id] is first written as running by start_analysis before
\* the worker starts, then written once more, by the worker of that task and
\* with a terminal status; a terminal record never changes again and a poll
\* made after it never answers running.
C15_StatusProtocol ==
    /\ [](\A t \in DOMAIN tasks :
            /\ Len(writes[t]) \in {1, 2}
            /\ writes[t][1] = [by |-> 0, status |-> "running"]
            /\ Len(writes[t]) = 2 =>
                  /\ writes[t][2].by = t
                  /\ writes[t][2].status \in {"completed", "failed"}
                  /\ writes[t][2].status = tasks[t].status
            /\ IsTerminal(tasks[t]) <=> Len(writes[t]) = 2
            /\ wpc[t] \in {"finally", "done"} <=> Len(writes[t]) = 2)
    /\ [][\A t \in DOMAIN tasks :
            IsTerminal(tasks[t]) =>
                /\ tasks'[t] = tasks[t]
                /\ (response' # response /\ response'.route = "task"
                    /\ response'.task_id = t) => response'.body = tasks[t]]_vars

C15_Witness ==
    \E t, u \in DOMAIN tasks :
        /\ wpc[t] = "done"
        /\ tasks[t].status = "completed"
        /\ response = [route |-> "task", task_id |-> t, body |-> tasks[t]]
        /\ tasks[u].status = "running"
        /\ wpc[u] # "initialize"

\* C16: under fair scheduling of the worker threads every accepted job
\* reaches a terminal status with completed_at set, and its worker has
\* executed the shutdown.
C16_JobCompletion ==
    \A t \in 1..MaxTasks :
        (t \in DOMAIN tasks) ~>
            (/\ t \in DOMAIN tasks
             /\ wpc[t] = "done"
             /\ IsTerminal(tasks[t])
             /\ "completed_at" \in DOMAIN tasks[t])

C16_Witness ==
    /\ Len(tasks) = MaxTasks
    /\ \A t \in DOMAIN tasks : wpc[t] = "done" /\ "completed_at" \in DOMAIN tasks[t]
    /\ \E t \in DOMAIN tasks : tasks[t].status = "completed"
    /\ \E t \in DOMAIN tasks : tasks[t].status = "failed"

\* the dates processed so far
Prefix(n) == {all_dates[k] : k \in 1..n}

\* initial equity plus the total_profit of every position closed on a date of
\* the prefix plus the amount of every balance deal of a date of the prefix,
\* each taken once
Conserved(n) ==
    initial_equity
    + SumOver([i \in 1..Len(position_times) |-> position_times[i].total_profit],
              {i \in 1..Len(position_times) :
                  DateOf(position_times[i].close_time) \in Prefix(n)})
    + SumOver([i \in 1..Len(deals) |-> deals[i].profit],
              {i \in 1..Len(deals) :
                  /\ deals[i].entry = DEAL_ENTRY_IN
                  /\ deals[i].type \in {DEAL_TYPE_BALANCE, DEAL_TYPE_CREDIT}
                  /\ DateOf(deals[i].time) \in Prefix(n)})

\* C17: after any prefix of the sorted dates current_equity is the initial
\* equity plus the total_profit of the positions closed in the prefix plus the
\* balance amounts of the prefix, in both loops, and the final equity of
\* analyze_trades_by_day is the equity of the last row of save_daily_trades.
C17_EquityConservation ==
    /\ pc \in {"loop", "saved", "done"} => current_equity = Conserved(idx)
    /\ pc = "saved" =>
          /\ Len(equity_data) = Len(all_dates)
          /\ \A n \in 1..Len(equity_data) : equity_data[n].equity = Conserved(n)
          /\ equity_data[Len(equity_data)].equity = current_equity

C17_Witness ==
    /\ pc = "saved"
    /\ Len(equity_data) >= 2
    /\ \E i, j \in 1..Len(position_times) :
          i # j /\ position_times[i].date = position_times[j].date
    /\ BalanceDates # {}
    /\ current_equity # initial_equity

====
